---- MODULE Spec2Model ----
(***************************************************************************)
(* Model of src/src/dukascopy_tick_data_fetcher.py:                        *)
(* Dukascopy_Tick_Data_Fetcher.get with _load_local_data,                  *)
(* _save_local_data and the fetch collaborator, and set_broker_timezone    *)
(* with the timezone lookup.                                               *)
(*                                                                         *)
(* Time is a line of integer instants (UTC).  A calendar day is DayLen     *)
(* instants, a calendar month DaysPerMonth days.  A DataFrame is a         *)
(* sequence of rows [ts, val]: ts is the index (timestamp), val stands     *)
(* for the four price/volume columns.  A cache partition file is           *)
(* [kind, rows]: absent, corrupt (read_csv raises) or csv.                 *)
(* The rows of one fetch answer carry the revision of the remote data at   *)
(* the time of the call, so a cached row and a re-fetched row of the same  *)
(* timestamp differ exactly when the remote data was revised in between.   *)
(***************************************************************************)
EXTENDS Integers, Sequences, FiniteSets, TLC

\* ------------------------------------------------------------ calendar
DayLen == 2
DaysPerMonth == 2
MonthLen == DayLen * DaysPerMonth

\* ------------------------------------------------------------ bounds
\* calendar months the instants span
NumMonths == 2
\* rows in one answer of the fetch collaborator
MaxFetchLen == 2
\* passes of the symbol loop in one behaviour, over all runs of get()
MaxIter == 2
\* largest months_to_fetch
MaxMonthsToFetch == 1
\* revisions of the remote data
MaxVer == 2
\* partition files that get damaged
MaxCorrupt == 1
\* set_broker_timezone calls in one behaviour
MaxTzCalls == 2
\* rows in one answer of the fetch collaborator, under SpecTz
MaxFetchLenTz == 1
\* days the local date may be ahead of the date of end_date, under SpecTz
MaxDaysAhead == 1

Time == 0 .. (NumMonths * MonthLen - 1)
Months == 0 .. (NumMonths - 1)
\* the readings of the clock at which get() is started: the instants of
\* the last day of the horizon (its first instant and one inside it)
Nows == {t \in Time : t >= NumMonths * MonthLen - DayLen}

\* pandas Timestamp.floor('D')
FloorDay(t) == (t \div DayLen) * DayLen
\* (index.year, index.month) of a timestamp, as one month number
MonthOf(t) == t \div MonthLen
\* MinusMonths with a fault: the months are taken as days
MinusMonthsAsDays(t, n) == t - n * DayLen

\* end_date - relativedelta(months=months_to_fetch)
MinusMonths(t, n) == t - n * MonthLen

\* ------------------------------------------------------------ symbols
\* A symbol is a sequence of characters, so that str.replace acts on it.
SymAB == <<"a", "/", "b">>
SymA_B == <<"a", "_", "b">>
SymC == <<"c">>
PairAB == <<SymAB, "AB">>
PairA_B == <<SymA_B, "A_B">>
PairC == <<SymC, "C">>
Pairs == {PairAB, PairA_B, PairC}
Targets == {p[2] : p \in Pairs}
\* the symbols argument of get(): lists of (dukascopy_symbol, target_symbol)
SymbolLists == {<<PairAB>>, <<PairAB, PairC>>, <<PairAB, PairA_B>>}

\* dukascopy_symbol.replace('/', '_')
ReplaceSlash(s) == [i \in DOMAIN s |-> IF s[i] = "/" THEN "_" ELSE s[i]]
\* symbol_path: the cache directory of a symbol
SymbolPath(sym) == ReplaceSlash(sym)
Dirs == {SymbolPath(p[1]) : p \in Pairs}

\* ------------------------------------------------------------ timezones
\* A timezone name is a sequence of parts, so that str.replace acts on it.
TzHelsinki == <<"Europe", "/", "Helsinki">>
TzUTC == <<"UTC">>
TzMars == <<"Mars", "/", "Base">>
\* the names pytz.timezone resolves; any other name raises
\* UnknownTimeZoneError
KnownTimezones == {TzHelsinki, TzUTC}
TimezoneNames == KnownTimezones \cup {TzMars}
\* broker_timezone = None
None == <<>>

\* ------------------------------------------------------------ export names
DayOf(t) == t \div DayLen
Digits == <<"0", "1", "2", "3", "4", "5", "6", "7", "8", "9">>
\* %m and %d: two digits, zero padded
Pad2(n) == <<Digits[(n \div 10) + 1], Digits[(n % 10) + 1]>>
\* strftime('%Y-%m-%d') of calendar day d; day 0 is 2025-01-01
Strftime(d) ==
    <<"2025", "-">> \o Pad2((d \div DaysPerMonth) + 1)
                   \o <<"-">> \o Pad2((d % DaysPerMonth) + 1)
\* OutputFilename with a fault: the timezone name is used as it is
OutputFilenameKeepSlash(target_symbol, target_tz_str, today) ==
    <<target_symbol, "-">> \o target_tz_str
                          \o <<"-">> \o Strftime(today) \o <<".csv">>

\* f"{target_symbol}-{tz_suffix}-{today_str}.csv"
OutputFilename(target_symbol, target_tz_str, today) ==
    <<target_symbol, "-">> \o ReplaceSlash(target_tz_str)
                          \o <<"-">> \o Strftime(today) \o <<".csv">>

\* ------------------------------------------------------------ files
NoFile == [kind |-> "absent", rows |-> <<>>]
CorruptFile == [kind |-> "corrupt", rows |-> <<>>]
Csv(rows) == [kind |-> "csv", rows |-> rows]
EmptyDir == [m \in Months |-> NoFile]

\* ------------------------------------------------------------ pandas
Row(t, v) == [ts |-> t, val |-> v]
TsSet(df) == {df[i].ts : i \in DOMAIN df}
MaxTs(df) == CHOOSE t \in TsSet(df) : \A u \in TsSet(df) : u <= t

RECURSIVE TakeIdx(_, _, _)
\* the rows of df at the positions in S, in order (boolean-mask selection)
TakeIdx(df, S, i) ==
    IF i > Len(df) THEN <<>>
    ELSE (IF i \in S THEN <<df[i]>> ELSE <<>>) \o TakeIdx(df, S, i + 1)

\* df[~df.index.duplicated(keep='first')]
DropDuplicatesKeepFirst(df) ==
    TakeIdx(df, {i \in DOMAIN df : \A j \in 1 .. (i - 1) : df[j].ts # df[i].ts}, 1)

\* df[~df.index.duplicated(keep='last')]
DropDuplicatesKeepLast(df) ==
    TakeIdx(df, {i \in DOMAIN df : \A j \in (i + 1) .. Len(df) : df[j].ts # df[i].ts}, 1)

InsertSorted(s, r) ==
    LET k == Cardinality({i \in DOMAIN s : s[i].ts <= r.ts})
    IN SubSeq(s, 1, k) \o <<r>> \o SubSeq(s, k + 1, Len(s))

RECURSIVE SortIndex(_)
\* df.sort_index(): ascending by timestamp; rows of equal timestamp keep
\* their order (a monotonic index is returned as it is).
SortIndex(df) ==
    IF df = <<>> THEN <<>>
    ELSE InsertSorted(SortIndex(SubSeq(df, 1, Len(df) - 1)), df[Len(df)])

\* df.loc[start:end] on a sorted DatetimeIndex: both ends inclusive
Loc(df, start, end) == SelectSeq(df, LAMBDA r : start <= r.ts /\ r.ts <= end)

RECURSIVE Concat(_)
\* pd.concat(dfs)
Concat(dfs) == IF dfs = <<>> THEN <<>> ELSE Head(dfs) \o Concat(Tail(dfs))

\* ------------------------------------------------------------ _load_local_data
\* date_range(month_start, end_date, freq='MS'): the months whose first
\* instant lies between the first instant of start_date's month and end_date
LoadRange(start, end) ==
    {m \in Months : MonthOf(start) <= m /\ m * MonthLen <= end}

RECURSIVE ReadPartitions(_, _, _)
\* the loop over date_range: a missing file, a file read_csv cannot parse
\* and an empty frame are skipped
ReadPartitions(files, R, m) ==
    IF m > NumMonths - 1 THEN <<>>
    ELSE (IF m \in R /\ files[m].kind = "csv" /\ files[m].rows # <<>>
          THEN <<files[m].rows>> ELSE <<>>)
         \o ReadPartitions(files, R, m + 1)

LoadLocalData(files, start, end) ==
    LET dfs == ReadPartitions(files, LoadRange(start, end), 0)
    IN IF dfs = <<>> THEN <<>>
       ELSE Loc(SortIndex(Concat(dfs)), start, end)
\* MergePartition with a fault: on a conflict the old row wins
MergePartitionKeepFirst(existing, group) ==
    SortIndex(DropDuplicatesKeepFirst(existing \o group))

\* ------------------------------------------------------------ _save_local_data
\* an existing partition: concat, duplicated(keep='last'), sort_index
MergePartition(existing, group) ==
    SortIndex(DropDuplicatesKeepLast(existing \o group))

\* a new partition: group_df.to_csv(file_path)
WriteNewPartition(group) == group

\* MonthGroup with a fault: the frame is not split by month
MonthGroupAll(df, m) == df

\* df_to_save.groupby([index.year, index.month]): the rows of month m
MonthGroup(df, m) == SelectSeq(df, LAMBDA r : MonthOf(r.ts) = m)

RECURSIVE SaveFrom(_, _, _)
\* the groupby loop, months ascending; read_csv of an existing file is
\* outside any try, so an unparseable file raises out of the function
\* after the earlier months were written
SaveFrom(files, df, m) ==
    IF m > NumMonths - 1 THEN [files |-> files, raised |-> FALSE]
    ELSE LET group == MonthGroup(df, m)
         IN IF group = <<>> THEN SaveFrom(files, df, m + 1)
            ELSE IF files[m].kind = "absent"
            THEN SaveFrom([files EXCEPT ![m] = Csv(WriteNewPartition(group))], df, m + 1)
            ELSE IF files[m].kind = "corrupt"
            THEN [files |-> files, raised |-> TRUE]
            ELSE SaveFrom([files EXCEPT ![m] = Csv(MergePartition(files[m].rows, group))],
                          df, m + 1)

SaveLocalData(files, df) == SaveFrom(files, df, 0)
\* FetchStartDate with a fault: fetch from the last cached timestamp itself
FetchStartDateNoFloor(local_df, start) ==
    IF local_df # <<>> THEN MaxTs(local_df) ELSE start

\* ------------------------------------------------------------ get: one symbol
\* fetch_start_date: start_date, or the start of the last cached day
FetchStartDate(local_df, start) ==
    IF local_df # <<>> THEN FloorDay(MaxTs(local_df)) ELSE start

\* clean_local_df = local_df[local_df.index < fetch_start_date]
CleanLocal(local_df, fs) ==
    IF local_df # <<>> THEN SelectSeq(local_df, LAMBDA r : r.ts < fs) ELSE <<>>
\* FetchNeeded with a fault: fetch is called whatever the cache covers
FetchNeededAlways(fs, end) == TRUE
\* FetchNeeded with a fault: the comparison admits fetch_start_date = end_date
FetchNeededInclusive(fs, end) == fs <= end

\* if fetch_start_date < end_date
FetchNeeded(fs, end) == fs < end
\* ExportFrame with a fault: the export is not deduplicated
ExportFrameNoDedup(dfs, start, end) ==
    Loc(SortIndex(Concat(dfs)), start, end)

\* concat, duplicated(keep='first'), sort_index, loc[start_date:end_date]
ExportFrame(dfs, start, end) ==
    Loc(SortIndex(DropDuplicatesKeepFirst(Concat(dfs))), start, end)

\* the answers of the fetch collaborator
RespNone == [kind |-> "none", rows |-> <<>>]
RespRaise == [kind |-> "raise", rows |-> <<>>]
RespOk(rows) == [kind |-> "ok", rows |-> rows]

\* SkipsExport with a fault: a caught exception does not end the pass
SkipsExportOnEmptyOnly(raised, dfs) == dfs = <<>>

\* the two `continue` before the export: after a caught exception, and
\* when dfs_to_combine is empty
SkipsExport(raised, dfs) == raised \/ dfs = <<>>
\* WritesExport with a fault: an empty final dataset is written too
WritesExportAlways(raw_df) == TRUE

\* `if raw_df.empty: continue`, else to_csv
WritesExport(raw_df) == raw_df # <<>>

\* the collaborator calls of one pass, in the order the loop body makes
\* them: _load_local_data, _fetch_from_dukascopy, _save_local_data, to_csv
Events(called, saving, exported) ==
    <<"load">> \o (IF called THEN <<"fetch">> ELSE <<>>)
               \o (IF saving THEN <<"save">> ELSE <<>>)
               \o (IF exported THEN <<"export">> ELSE <<>>)

\* One pass of the loop body for `pair` over cache c with fetch answer
\* resp, target timezone target_tz_str and local calendar day today.
ProcessOne(c, pair, start, end, resp, target_tz_str, today) ==
    LET dir == SymbolPath(pair[1])
        local_df == LoadLocalData(c[dir], start, end)
        fs == FetchStartDate(local_df, start)
        clean == CleanLocal(local_df, fs)
        called == FetchNeeded(fs, end)
        new_df == IF called /\ resp.kind = "ok" THEN resp.rows ELSE <<>>
        saving == new_df # <<>>
        sv == IF saving THEN SaveLocalData(c[dir], new_df)
              ELSE [files |-> c[dir], raised |-> FALSE]
        raised == called /\ (resp.kind = "raise" \/ sv.raised)
        dfs == (IF clean # <<>> THEN <<clean>> ELSE <<>>)
               \o (IF saving /\ ~sv.raised THEN <<new_df>> ELSE <<>>)
        skipped == SkipsExport(raised, dfs)
        raw_df == IF skipped THEN <<>> ELSE ExportFrame(dfs, start, end)
        exported == ~skipped /\ WritesExport(raw_df)
    IN [pair |-> pair, pre |-> c, start |-> start, end |-> end,
        local_df |-> local_df, fetch_start |-> fs,
        clean |-> clean, called |-> called,
        call |-> IF called THEN <<fs, end>> ELSE <<>>,
        resp |-> IF called THEN resp ELSE RespNone,
        saving |-> saving, raised |-> raised, dfs |-> dfs,
        exported |-> exported, raw_df |-> raw_df,
        filename |-> IF exported
                     THEN OutputFilename(pair[2], target_tz_str, today)
                     ELSE None,
        events |-> Events(called, saving, exported),
        files |-> sv.files]
\* NextIndex with a fault: after a caught exception the pair is tried again
NextIndexRetry(i, raised, n) == IF raised THEN i ELSE i + 1
\* NextIndex with a fault: a caught exception ends the loop (break)
NextIndexBreak(i, raised, n) == IF raised THEN n + 1 ELSE i + 1

\* `continue` after a caught exception: the loop goes on with the next pair
NextIndex(i, raised, n) == i + 1

\* ------------------------------------------------------------ state
VARIABLES
    cache,        \* raw_dukascopy_data: directory -> month -> partition file
    exports,      \* processed_data: target symbol -> exported file
    remoteVer,    \* revision of the data the fetch collaborator serves
    corruptions,  \* partition files damaged so far
    pc,           \* "idle" | "loop": position in get()
    run,          \* the arguments and the window of the running get()
    idx,          \* position in the symbols list
    report,       \* what each pass of the loop did, this run
    prev,         \* the previous completed run
    iters,        \* loop passes made in this behaviour
    broker_timezone,  \* self.broker_timezone, the stored default
    tz_log        \* the set_broker_timezone calls made so far

vars == <<cache, exports, remoteVer, corruptions, pc, run, idx, report, prev, iters,
          broker_timezone, tz_log>>

EmptyCache == [d \in Dirs |-> EmptyDir]
\* processed_data: file name -> file, for the files written so far
NoExports == [f \in {} |-> NoFile]
ExportAt(files, f) == IF f \in DOMAIN files THEN files[f] ELSE NoFile
NoRun == [months |-> 0, start_date |-> 0, end_date |-> 0, symbols |-> <<>>,
          broker_timezone |-> None, target_tz_str |-> None]
NoPrev == [valid |-> FALSE, run |-> NoRun, report |-> <<>>, cache |-> EmptyCache]

Init ==
    /\ cache = EmptyCache
    /\ exports = NoExports
    /\ remoteVer = 1
    /\ corruptions = 0
    /\ pc = "idle"
    /\ run = NoRun
    /\ idx = 0
    /\ report = <<>>
    /\ prev = NoPrev
    /\ iters = 0
    /\ broker_timezone = TzHelsinki
    /\ tz_log = <<>>

\* the sequences of timestamps the collaborator may answer with: any
\* order, repeats allowed, inside or outside the requested window
TsSeqs == UNION {[1 .. n -> Time] : n \in 0 .. MaxFetchLen}
Answer(tss) == [i \in DOMAIN tss |-> Row(tss[i], remoteVer)]

\* target_tz_str = broker_timezone if broker_timezone is not None
\*                 else self.broker_timezone
TargetTz(arg, default) == IF arg # None THEN arg ELSE default

\* get(months_to_fetch, symbols, output_dir, broker_timezone) up to the
\* loop: pytz.timezone resolves the target timezone; the window is
\* [now - months, now], now read once from the clock (which never goes back)
StartGet(months, now, symbols, tz) ==
    /\ pc = "idle"
    /\ iters + Len(symbols) <= MaxIter
    /\ now >= prev.run.end_date
    /\ MinusMonths(now, months) >= 0
    /\ TargetTz(tz, broker_timezone) \in KnownTimezones
    /\ run' = [months |-> months, start_date |-> MinusMonths(now, months),
               end_date |-> now, symbols |-> symbols, broker_timezone |-> tz,
               target_tz_str |-> TargetTz(tz, broker_timezone)]
    /\ idx' = 1
    /\ report' = <<>>
    /\ pc' = "loop"
    /\ UNCHANGED <<cache, exports, remoteVer, corruptions, prev, iters,
                   broker_timezone, tz_log>>

\* get() with a timezone pytz.timezone does not know: UnknownTimeZoneError
\* leaves get() before the loop; cache and exports are as they were
GetUnknownTimezone(tz) ==
    /\ pc = "idle"
    /\ TargetTz(tz, broker_timezone) \notin KnownTimezones
    /\ UNCHANGED vars

\* one pass of `for dukascopy_symbol, target_symbol in symbols`; today is
\* the local calendar day datetime.now() gives when the export is named
Step(resp, today) ==
    \E o \in {ProcessOne(cache, run.symbols[idx], run.start_date, run.end_date, resp,
                         run.target_tz_str, today)} :
       /\ resp.kind = (IF o.called THEN resp.kind ELSE "none")
       /\ (o.called => resp.kind # "none")
       /\ cache' = [cache EXCEPT ![SymbolPath(o.pair[1])] = o.files]
       /\ exports' = IF o.exported
                     THEN (o.filename :> Csv(o.raw_df)) @@ exports
                     ELSE exports
       /\ report' = Append(report, o)
       /\ idx' = NextIndex(idx, o.raised, Len(run.symbols))
       /\ iters' = iters + 1
       /\ UNCHANGED <<remoteVer, corruptions, pc, run, prev, broker_timezone, tz_log>>

\* the local calendar days the clock may show during a run that read
\* end_date: the day of end_date and up to `ahead` days after it
LocalDays(end, ahead) == DayOf(end) .. (DayOf(end) + ahead)

\* the pass, with the collaborator answering any of `answers` and the
\* local date up to `ahead` days after end_date's
ProcessSymbol(answers, ahead) ==
    /\ pc = "loop"
    /\ idx <= Len(run.symbols)
    /\ \E today \in LocalDays(run.end_date, ahead) :
          \/ Step(RespNone, today)
          \/ Step(RespRaise, today)
          \/ \E tss \in answers : Step(RespOk(Answer(tss)), today)

\* get() returns after the last pair
Return ==
    /\ pc = "loop"
    /\ idx > Len(run.symbols)
    /\ prev' = [valid |-> TRUE, run |-> run, report |-> report, cache |-> cache]
    /\ pc' = "idle"
    /\ UNCHANGED <<cache, exports, remoteVer, corruptions, run, idx, report, iters,
                   broker_timezone, tz_log>>

\* SetTimezone with a fault: the name is stored without the lookup
SetTimezoneNoLookup(default, name) == [tz |-> name, raised |-> FALSE]

\* the body of set_broker_timezone: the name is stored when pytz.timezone
\* resolves it; UnknownTimeZoneError is caught and only printed
SetTimezone(default, name) ==
    IF name \in KnownTimezones
    THEN [tz |-> name, raised |-> FALSE]
    ELSE [tz |-> default, raised |-> FALSE]

\* set_broker_timezone(timezone_name), between two runs of get()
SetBrokerTimezone(name) ==
    /\ pc = "idle"
    /\ Len(tz_log) < MaxTzCalls
    /\ broker_timezone' = SetTimezone(broker_timezone, name).tz
    /\ tz_log' = Append(tz_log, [name |-> name, before |-> broker_timezone,
                                 raised |-> SetTimezone(broker_timezone, name).raised])
    /\ UNCHANGED <<cache, exports, remoteVer, corruptions, pc, run, idx, report,
                   prev, iters>>

\* environment: a partition file on disk is damaged between two runs and
\* can no longer be parsed
Corrupt(d, m) ==
    /\ pc = "idle"
    /\ iters < MaxIter
    /\ corruptions < MaxCorrupt
    /\ cache[d][m].kind = "csv"
    /\ cache' = [cache EXCEPT ![d][m] = CorruptFile]
    /\ corruptions' = corruptions + 1
    /\ UNCHANGED <<exports, remoteVer, pc, run, idx, report, prev, iters,
                   broker_timezone, tz_log>>

\* environment: the remote source revises its data between two runs
RemoteRevise ==
    /\ pc = "idle"
    /\ prev.valid
    /\ iters < MaxIter
    /\ remoteVer < MaxVer
    /\ remoteVer' = remoteVer + 1
    /\ UNCHANGED <<cache, exports, corruptions, pc, run, idx, report, prev, iters,
                   broker_timezone, tz_log>>

\* The runs of get() on an object that keeps its constructed default
\* timezone, the local date being the date of end_date.
Next ==
    \/ \E months \in 0 .. MaxMonthsToFetch, now \in Nows, symbols \in SymbolLists :
          StartGet(months, now, symbols, None)
    \/ ProcessSymbol(TsSeqs, 0)
    \/ Return
    \/ \E d \in Dirs, m \in Months : Corrupt(d, m)
    \/ RemoteRevise

Spec == Init /\ [][Next]_vars

\* fetch answers of at most MaxFetchLenTz rows
TsSeqsTz == {tss \in TsSeqs : Len(tss) <= MaxFetchLenTz}

\* The runs of get() with progress: get() is synchronous, so once it is
\* called it makes its passes and returns, every collaborator call
\* returning (an answer or an exception).  Fetch answers of at most
\* MaxFetchLenTz rows; partition files may be damaged between runs.
NextLive ==
    \/ \E months \in 0 .. MaxMonthsToFetch, now \in Nows, symbols \in SymbolLists :
          StartGet(months, now, symbols, None)
    \/ ProcessSymbol(TsSeqsTz, 0)
    \/ Return
    \/ \E d \in Dirs, m \in Months : Corrupt(d, m)

SpecLive ==
    /\ Init
    /\ [][NextLive]_vars
    /\ WF_vars(ProcessSymbol(TsSeqsTz, 0))
    /\ WF_vars(Return)

\* The timezone configuration varied: set_broker_timezone between runs,
\* get() with and without its broker_timezone argument, the local date on
\* or after the date of end_date; fetch answers of at most MaxFetchLenTz
\* rows.
NextTz ==
    \/ \E name \in TimezoneNames : SetBrokerTimezone(name)
    \/ \E months \in 0 .. MaxMonthsToFetch, now \in Nows, symbols \in SymbolLists,
          tz \in {None} \cup TimezoneNames :
          StartGet(months, now, symbols, tz)
    \/ \E tz \in {None} \cup TimezoneNames : GetUnknownTimezone(tz)
    \/ ProcessSymbol(TsSeqsTz, MaxDaysAhead)
    \/ Return

SpecTz == Init /\ [][NextTz]_vars

\* ------------------------------------------------------------ claims
\* the latest pass of the loop; in a state with pc = "loop" and a
\* non-empty report, cache and exports are those it left
HasLast == pc = "loop" /\ report # <<>>
Last == report[Len(report)]
LastDir == SymbolPath(Last.pair[1])

RowSet(df) == {df[i] : i \in DOMAIN df}
StrictlyAscending(df) == \A i, j \in DOMAIN df : i < j => df[i].ts < df[j].ts
\* the positions <<month, i>> of the parseable records of a directory
\* whose timestamp lies in [lo, hi]
CachedAt(files, lo, hi) ==
    UNION {{<<m, i>> : i \in {j \in DOMAIN files[m].rows :
                                lo <= files[m].rows[j].ts /\ files[m].rows[j].ts <= hi}}
           : m \in {k \in Months : files[k].kind = "csv"}}
CachedRowsAt(files, lo, hi) ==
    {files[p[1]].rows[p[2]] : p \in CachedAt(files, lo, hi)}
MaxOf(S) == CHOOSE t \in S : \A u \in S : u <= t
GroupOf(df, m) == SelectSeq(df, LAMBDA r : MonthOf(r.ts) = m)

\* the records the symbol's cache held inside the desired window
\* [start_date, end_date] before the latest pass, and the start of the day
\* of the latest of them
LastWindow == CachedRowsAt(Last.pre[LastDir], run.start_date, run.end_date)
LastDayStart == FloorDay(MaxOf({r.ts : r \in LastWindow}))

\* C1: when the cache of the symbol holds a record inside the desired
\* window [start_date, end_date], with T the largest such timestamp and D
\* the start of T's day: a fetch, if made, is for (D, end_date); the clean
\* subset is exactly the cached in-window records before D, and no record
\* at or after D is in it.
C1_FetchFromDayStart ==
    (HasLast /\ LastWindow # {}) =>
        /\ Last.called => Last.call = <<LastDayStart, run.end_date>>
        /\ RowSet(Last.clean) = {r \in LastWindow : r.ts < LastDayStart}
        /\ Len(Last.clean)
             = Cardinality(CachedAt(Last.pre[LastDir], run.start_date, LastDayStart - 1))
        /\ \A i \in DOMAIN Last.clean : Last.clean[i].ts < LastDayStart
        /\ (Last.clean # <<>> /\ ~Last.raised) => Last.dfs[1] = Last.clean

\* a pass that fetched from the start of a partly cached day, kept an
\* earlier record and discarded a record of that day
C1_Witness ==
    /\ HasLast
    /\ LastWindow # {}
    /\ Last.called
    /\ Last.clean # <<>>
    /\ Last.call[1] > run.start_date
    /\ \E r \in LastWindow : r.ts > LastDayStart

\* the groupby loop of the latest save got as far as month m
C2_Reached(m) ==
    \A k \in Months :
        (k < m /\ GroupOf(Last.resp.rows, k) # <<>>) => Last.pre[LastDir][k].kind # "corrupt"

\* C2: when _save_local_data merges new records into an existing
\* (parseable) partition, the rewritten partition holds exactly the union
\* of old and new timestamps, a timestamp in both carries a newly fetched
\* row, an old record absent from the new data is kept, and the partition
\* of a month without new records is left as it was.
C2_MergeIsUnionNewWins ==
    (HasLast /\ Last.saving) =>
        \A m \in Months :
            LET old == Last.pre[LastDir][m]
                group == GroupOf(Last.resp.rows, m)
                cur == cache[LastDir][m]
            IN /\ group = <<>> => cur = old
               /\ (group # <<>> /\ old.kind = "csv" /\ C2_Reached(m)) =>
                     /\ cur.kind = "csv"
                     /\ TsSet(cur.rows) = TsSet(old.rows) \cup TsSet(group)
                     /\ StrictlyAscending(cur.rows)
                     /\ \A i \in DOMAIN cur.rows :
                           IF cur.rows[i].ts \in TsSet(group)
                           THEN cur.rows[i] \in RowSet(group)
                           ELSE cur.rows[i] \in RowSet(old.rows)

\* a merge with a conflicting timestamp (old and new value differ) and an
\* old record that the new data does not have
C2_Witness ==
    /\ HasLast
    /\ Last.saving
    /\ \E m \in Months :
          LET old == Last.pre[LastDir][m]
              group == GroupOf(Last.resp.rows, m)
          IN /\ old.kind = "csv"
             /\ group # <<>>
             /\ \E a \in RowSet(old.rows), b \in RowSet(group) : a.ts = b.ts /\ a.val # b.val
             /\ TsSet(old.rows) \ TsSet(group) # {}
             /\ TsSet(cache[LastDir][m].rows) = TsSet(old.rows) \cup TsSet(group)

\* C3: when the clean cache subset and the fetched records share a
\* timestamp, the row of that timestamp in the export is the fetched one.
C3_FreshWinsInExport ==
    (HasLast /\ Last.exported /\ Len(Last.dfs) = 2) =>
        \A i \in DOMAIN Last.raw_df :
            Last.raw_df[i].ts \in TsSet(Last.clean) \cap TsSet(Last.resp.rows)
                => Last.raw_df[i] \in RowSet(Last.resp.rows)

\* every fetch of this run and of the previous one returned the same
\* records, all inside the window this run asked for
C4_SameData ==
    /\ Len(report) = Len(prev.report)
    /\ \A i \in DOMAIN report :
          /\ report[i].resp.kind = "ok"
          /\ report[i].resp = prev.report[i].resp
          /\ ~report[i].raised
          /\ ~prev.report[i].raised
          /\ \A r \in RowSet(report[i].resp.rows) :
                report[i].call[1] <= r.ts /\ r.ts < run.end_date

\* C4: a second run right after a first one (same symbols, same window, no
\* change on disk in between), with the collaborator returning the same
\* records to every call, all of them inside the window the second run
\* asks for, leaves every partition as the first run left it.
C4_SecondRunIdempotent ==
    (/\ pc = "loop"
     /\ idx > Len(run.symbols)
     /\ prev.valid
     /\ run = prev.run
     /\ report # <<>>
     /\ report[1].pre = prev.cache
     /\ C4_SameData)
        => cache = prev.cache

\* C5: every persisted partition has pairwise distinct timestamps in
\* ascending order.
C5_PartitionsUniqueSorted ==
    \A d \in Dirs, m \in Months :
        cache[d][m].kind = "csv" => StrictlyAscending(cache[d][m].rows)

\* the fetch of an earlier symbol of this run raised
C6_FailedBefore ==
    \E i \in 1 .. (Len(report) - 1) : report[i].resp.kind = "raise"

\* C6: the loop passes over the pairs in list order whatever a pass
\* raised; after a fetch failure of an earlier symbol, a later symbol has
\* its cache loaded, its fetch attempted exactly when its fetch window is
\* non-empty, and its export written when the dataset it formed (no
\* exception of its own) has a record in the window.
C6_LaterSymbolsProcessed ==
    /\ pc = "loop" =>
          /\ idx = Len(report) + 1
          /\ idx <= Len(run.symbols) + 1
          /\ \A j \in DOMAIN report : report[j].pair = run.symbols[j]
    /\ (HasLast /\ C6_FailedBefore) =>
          /\ RowSet(Last.local_df)
               = CachedRowsAt(Last.pre[LastDir], run.start_date, run.end_date)
          /\ Last.called <=> Last.fetch_start < run.end_date
          /\ Last.called => Last.resp.kind \in {"ok", "raise"}
          /\ (/\ ~Last.raised
              /\ \E r \in RowSet(Last.clean) \cup RowSet(Last.resp.rows) :
                    run.start_date <= r.ts /\ r.ts <= run.end_date)
                => /\ Last.exported
                   /\ ExportAt(exports, Last.filename) = Csv(Last.raw_df)

\* the first symbol's fetch raised; the second was fetched and exported
C6_Witness ==
    /\ HasLast
    /\ Len(report) = 2
    /\ report[1].resp.kind = "raise"
    /\ Last.called
    /\ Last.resp.kind = "ok"
    /\ Last.exported

\* the directory without its unparseable files
C7_Repaired(files) ==
    [m \in Months |-> IF files[m].kind = "corrupt" THEN NoFile ELSE files[m]]

\* C7: a pass over a cache with an unparseable partition file in the
\* loaded months asks for the same fetch window, persists the fetched
\* records of that month and writes the same export as the pass over the
\* same cache without that file.
C7_CorruptAsAbsent ==
    (/\ HasLast
     /\ \E m \in LoadRange(run.start_date, run.end_date) :
           Last.pre[LastDir][m].kind = "corrupt")
        => LET twin == ProcessOne([Last.pre EXCEPT ![LastDir] = C7_Repaired(@)],
                                  Last.pair, run.start_date, run.end_date, Last.resp,
                                  run.target_tz_str, DayOf(run.end_date))
           IN /\ Last.called = twin.called
              /\ Last.call = twin.call
              /\ Last.exported = twin.exported
              /\ Last.raw_df = twin.raw_df
              /\ \A m \in Months :
                    (Last.pre[LastDir][m].kind = "corrupt" /\ twin.files[m].kind = "csv")
                        => cache[LastDir][m] = twin.files[m]

\* C8 as stated: when the largest cached in-window timestamp equals
\* end_date, fetch is not invoked and an export is written.
C8_NoFetchWhenCoveredToEnd ==
    (HasLast /\ LastWindow # {} /\ MaxOf({r.ts : r \in LastWindow}) = run.end_date)
        => (~Last.called /\ Last.exported)

\* C8 amended: when the largest cached in-window timestamp equals end_date
\* and end_date is the first instant of its day, fetch is not invoked, no
\* partition changes, and an export holding the cached in-window records
\* earlier than end_date is written exactly when there is such a record;
\* when end_date lies inside a day, fetch is invoked for
\* (start of that day, end_date).
C8_NoFetchAtDayStart ==
    (HasLast /\ LastWindow # {} /\ MaxOf({r.ts : r \in LastWindow}) = run.end_date)
        => IF run.end_date % DayLen = 0
           THEN /\ ~Last.called
                /\ cache = Last.pre
                /\ Last.exported <=> \E r \in LastWindow : r.ts < run.end_date
                /\ Last.exported =>
                      /\ TsSet(Last.raw_df) = {r.ts : r \in {q \in LastWindow : q.ts < run.end_date}}
                      /\ RowSet(Last.raw_df) \subseteq LastWindow
                      /\ ExportAt(exports, Last.filename) = Csv(Last.raw_df)
           ELSE /\ Last.called
                /\ Last.call = <<run.end_date - (run.end_date % DayLen), run.end_date>>

\* the cache reaches end_date, a day start: no fetch, export from cache
C8_Witness ==
    /\ HasLast
    /\ LastWindow # {}
    /\ MaxOf({r.ts : r \in LastWindow}) = run.end_date
    /\ run.end_date % DayLen = 0
    /\ ~Last.called
    /\ Last.exported

\* C9: when the cache holds no record inside a non-empty desired window,
\* fetch is invoked for (start_date, end_date) and every record of a
\* non-empty answer is in the cache afterwards.
C9_FreshFetchPersisted ==
    (HasLast /\ LastWindow = {} /\ run.start_date < run.end_date) =>
        /\ Last.called
        /\ Last.call = <<run.start_date, run.end_date>>
        /\ Last.resp.kind = "ok" =>
              \A r \in RowSet(Last.resp.rows) :
                  /\ cache[LastDir][MonthOf(r.ts)].kind = "csv"
                  /\ r \in RowSet(cache[LastDir][MonthOf(r.ts)].rows)

\* C10: every written export has pairwise distinct timestamps in
\* ascending order, whatever the cache held and the fetch returned.
C10_ExportUniqueSorted ==
    /\ \A f \in DOMAIN exports : StrictlyAscending(exports[f].rows)
    /\ (HasLast /\ Last.exported) =>
          /\ ExportAt(exports, Last.filename) = Csv(Last.raw_df)
          /\ TsSet(Last.raw_df)
               = {t \in TsSet(Concat(Last.dfs)) : run.start_date <= t /\ t <= run.end_date}

\* an export written from a fetch answer that repeats a timestamp and
\* overlaps the clean cache subset
C10_Witness ==
    /\ HasLast
    /\ Last.exported
    /\ Len(Last.dfs) = 2
    /\ TsSet(Last.dfs[1]) \cap TsSet(Last.dfs[2]) # {}
    /\ Cardinality(TsSet(Last.dfs[2])) < Len(Last.dfs[2])

\* C11: the desired window is applied as [start_date, end_date): every
\* record _load_local_data returned and every record of the written export
\* has start_date <= ts < end_date, so a record stamped end_date is in
\* neither.
C11_WindowHalfOpen ==
    HasLast =>
        /\ \A i \in DOMAIN Last.local_df :
              run.start_date <= Last.local_df[i].ts /\ Last.local_df[i].ts < run.end_date
        /\ Last.exported =>
              \A i \in DOMAIN exports[Last.filename].rows :
                  /\ run.start_date <= exports[Last.filename].rows[i].ts
                  /\ exports[Last.filename].rows[i].ts < run.end_date

\* C12: whenever fetch is invoked, its window lies inside the desired
\* window: start_date <= fetch start and fetch end <= end_date.
C12_FetchWithinWindow ==
    (HasLast /\ Last.called) =>
        /\ run.start_date <= Last.call[1]
        /\ Last.call[2] <= run.end_date

\* the pass o did not fail in fetch and formed a dataset without a record
\* in the window [start_date, end_date] that get() applies: nothing clean,
\* nothing fetched, or every fetched record outside the window
C13_Empty(o) ==
    /\ o.resp.kind # "raise"
    /\ \A r \in RowSet(o.clean) \cup RowSet(o.resp.rows) :
          ~(o.start <= r.ts /\ r.ts <= o.end)

\* C13: a pass whose reconciled dataset is empty writes no export file
\* (processed_data is as it was), ends without an error leaving get(), and
\* the loop goes on to the next pair.
C13_EmptyDatasetSkipped ==
    [][(pc = "loop" /\ Len(report') = Len(report) + 1 /\ C13_Empty(report'[Len(report')]))
          => /\ exports' = exports
             /\ pc' = "loop"
             /\ idx' = idx + 1]_vars

\* the first symbol's fetch answered with records, all outside the window,
\* and nothing was exported for it; the second symbol was then exported
C13_Witness ==
    /\ pc = "loop"
    /\ Len(report) = 2
    /\ C13_Empty(report[1])
    /\ report[1].resp.rows # <<>>
    /\ ~report[1].exported
    /\ report[2].exported
    /\ DOMAIN exports = {report[2].filename}

\* the stored default right after the i-th set_broker_timezone call
C14_After(i) == IF i < Len(tz_log) THEN tz_log[i + 1].before ELSE broker_timezone

\* C14: a set_broker_timezone call with a name the lookup does not know
\* leaves the stored default as it was before the call and raises nothing;
\* a call with a known name makes that name the stored default; after any
\* sequence of calls the stored default is a name the lookup knows.
C14_UnknownTimezoneRejected ==
    /\ broker_timezone \in KnownTimezones
    /\ \A i \in DOMAIN tz_log :
          /\ ~tz_log[i].raised
          /\ tz_log[i].name \notin KnownTimezones => C14_After(i) = tz_log[i].before
          /\ tz_log[i].name \in KnownTimezones => C14_After(i) = tz_log[i].name

\* the default was changed to a known name and then a call with an
\* unknown name was made
C14_Witness ==
    /\ Len(tz_log) = 2
    /\ tz_log[1].name = TzUTC
    /\ tz_log[2].name = TzMars
    /\ tz_log[2].before = TzUTC
    /\ broker_timezone = TzUTC

\* C15: after a pass that found cached records in the window, fetched from
\* the day start D of the last of them and persisted the answer, the cache
\* of the symbol holds no record stamped in [D, end_date] that the fetch
\* did not return.
C15_NoStaleAfterMerge ==
    (HasLast /\ LastWindow # {} /\ Last.called /\ Last.resp.kind = "ok"
             /\ Last.saving /\ ~Last.raised) =>
        \A r \in CachedRowsAt(cache[LastDir], Last.call[1], run.end_date) :
            r \in RowSet(Last.resp.rows)

\* C16: in a run of get() the window is the same for every pair: each
\* pass loads the cache with (start_date, end_date) of the run, each fetch
\* call gets the run's end_date, and start_date is end_date minus
\* months_to_fetch calendar months.
C16_WindowComputedOnce ==
    pc = "loop" =>
        /\ run.start_date = run.end_date - run.months * MonthLen
        /\ \A i \in DOMAIN report :
              /\ report[i].start = run.start_date
              /\ report[i].end = run.end_date
              /\ report[i].called => report[i].call[2] = run.end_date
              /\ RowSet(report[i].local_df)
                   = CachedRowsAt(report[i].pre[SymbolPath(report[i].pair[1])],
                                  run.start_date, run.end_date)

\* a run over one month and two symbols, both fetched
C16_Witness ==
    /\ pc = "loop"
    /\ run.months = 1
    /\ Len(report) = 2
    /\ report[1].called
    /\ report[2].called
    /\ report[2].local_df # <<>>

\* C17: a pass for symbol A changes no cache partition of another symbol
\* B of the run, and in a run over A then B the data loaded for B is what B's
\* directory held before A was processed.
C17_SymbolsIsolated ==
    /\ HasLast =>
          \A p \in RowSet(run.symbols) :
              p[1] # Last.pair[1] =>
                  cache[SymbolPath(p[1])] = Last.pre[SymbolPath(p[1])]
    /\ (pc = "loop" /\ Len(report) = 2 /\ report[1].pair[1] # report[2].pair[1]) =>
          report[2].local_df
             = LoadLocalData(report[1].pre[SymbolPath(report[2].pair[1])],
                             run.start_date, run.end_date)

\* the two characters of a number below 100
C18_TwoDigits(n) ==
    LET c(k) == CASE k = 0 -> "0" [] k = 1 -> "1" [] k = 2 -> "2" [] k = 3 -> "3"
                  [] k = 4 -> "4" [] k = 5 -> "5" [] k = 6 -> "6" [] k = 7 -> "7"
                  [] k = 8 -> "8" [] k = 9 -> "9"
    IN <<c(n \div 10), c(n % 10)>>
\* YYYY-MM-DD of calendar day d, day 0 being 2025-01-01
C18_Date(d) ==
    <<"2025", "-">> \o C18_TwoDigits((d \div DaysPerMonth) + 1)
                   \o <<"-">> \o C18_TwoDigits((d % DaysPerMonth) + 1)

\* C18: the file an exporting pass writes is named export symbol, "-",
\* the target timezone name with every "/" replaced by "_", "-", the date
\* of the run's day as YYYY-MM-DD, ".csv"; the target timezone is the
\* broker_timezone argument of get() when given, else the stored default.
C18_FilenameFormat ==
    (HasLast /\ Last.exported) =>
        LET f == Last.filename
            tz == IF run.broker_timezone # None THEN run.broker_timezone
                  ELSE broker_timezone
            n == Len(tz)
        IN /\ f \in DOMAIN exports
           /\ exports[f] = Csv(Last.raw_df)
           /\ Len(f) = n + 11
           /\ f[1] = Last.pair[2]
           /\ f[2] = "-"
           /\ \A i \in 1 .. n : f[2 + i] = (IF tz[i] = "/" THEN "_" ELSE tz[i])
           /\ f[n + 3] = "-"
           /\ \E d \in DayOf(run.end_date) .. (DayOf(run.end_date) + MaxDaysAhead) :
                 SubSeq(f, n + 4, n + 10) = C18_Date(d)
           /\ f[n + 11] = ".csv"

\* an export named after the broker_timezone argument, a name with a "/",
\* while the stored default is another timezone
C18_Witness ==
    /\ HasLast
    /\ Last.exported
    /\ broker_timezone = TzUTC
    /\ run.broker_timezone = TzHelsinki
    /\ Last.filename = <<"AB", "-", "Europe", "_", "Helsinki", "-",
                         "2025", "-", "0", "2", "-", "0", "2", ".csv">>

\* the fetch start of the latest pass: the day start of the last cached
\* in-window record, or start_date when there is none
C19_FetchStart == IF LastWindow # {} THEN LastDayStart ELSE run.start_date

\* C19: a pass invokes fetch if and only if its fetch start is strictly
\* earlier than end_date; when the fetch start is at or after end_date no
\* fetch call is made and no cache partition is written by the pass.
C19_FetchIffStartBeforeEnd ==
    HasLast =>
        /\ Last.called <=> C19_FetchStart < run.end_date
        /\ Last.called => Last.resp.kind \in {"ok", "raise"}
        /\ C19_FetchStart >= run.end_date =>
              /\ Last.call = <<>>
              /\ Last.resp = RespNone
              /\ cache = Last.pre

\* a run over months_to_fetch = 0 whose window [end_date, end_date] holds
\* a cached record: the fetch start is end_date, and no fetch is made
C19_Witness ==
    /\ HasLast
    /\ run.months = 0
    /\ Last.local_df # <<>>
    /\ C19_FetchStart = run.end_date
    /\ ~Last.called

\* C20: a pass whose fetch call raises creates and modifies no cache
\* partition and writes no export file, also when its clean cache subset
\* is not empty.
C20_FetchFailureSkipsSymbol ==
    [][(pc = "loop" /\ Len(report') = Len(report) + 1
                    /\ report'[Len(report')].resp.kind = "raise")
          => /\ cache' = cache
             /\ exports' = exports]_vars

\* the fetch raised in a pass that had a clean cache subset; nothing was
\* exported
C20_Witness ==
    /\ HasLast
    /\ Last.resp.kind = "raise"
    /\ Last.clean # <<>>
    /\ ~Last.exported
    /\ cache = Last.pre

\* the number of positions of seq that hold e
C21_Count(seq, e) == Cardinality({i \in DOMAIN seq : seq[i] = e})

\* the collaborator calls of pass o: one load, first; at most one fetch;
\* at most one save, only after a fetch that answered with a record; the
\* save before the export
C21_PassInOrder(o) ==
    /\ C21_Count(o.events, "load") = 1
    /\ o.events[1] = "load"
    /\ C21_Count(o.events, "fetch") <= 1
    /\ C21_Count(o.events, "save") <= 1
    /\ C21_Count(o.events, "export") <= 1
    /\ \A i \in DOMAIN o.events :
          /\ o.events[i] = "save" =>
                /\ o.resp.kind = "ok"
                /\ o.resp.rows # <<>>
                /\ \E j \in 1 .. (i - 1) : o.events[j] = "fetch"
          /\ o.events[i] = "export" =>
                \A j \in DOMAIN o.events : o.events[j] = "save" => j < i

\* C21: in a run of get() the pairs are processed one at a time in list
\* order, each once; each pass loads the cache once, calls fetch at most
\* once, saves at most once and only after a fetch that answered with a
\* record, and saves before it exports; and a run that was started ends
\* (get() returns) after the last pair.
C21_SequentialOncePerPair ==
    /\ [](pc = "loop" =>
            /\ Len(report) <= Len(run.symbols)
            /\ idx = Len(report) + 1
            /\ \A j \in DOMAIN report :
                  /\ report[j].pair = run.symbols[j]
                  /\ C21_PassInOrder(report[j]))
    /\ [][pc' = "idle" /\ pc = "loop" => Len(report) = Len(run.symbols)]_vars
    /\ (pc = "loop" ~> pc = "idle")

\* a run over two pairs at its end: the first pass fetched, saved and
\* exported, the second one's fetch raised
C21_Witness ==
    /\ pc = "loop"
    /\ Len(run.symbols) = 2
    /\ idx = 3
    /\ report[1].events = <<"load", "fetch", "save", "export">>
    /\ report[2].events = <<"load", "fetch">>
    /\ report[2].resp.kind = "raise"

C23_CachedDataKeptInExport ==
    (/\ HasLast
     /\ LastWindow # {}
     /\ \/ ~Last.called
        \/ Last.resp.kind = "ok" /\ Last.resp.rows = <<>>) =>
        /\ Last.exported
        /\ \A r \in LastWindow : r.ts \in TsSet(Last.raw_df)

\* C24: when the desired window starts before the earliest cached record
\* of the window, every instant of [start_date, earliest cached timestamp)
\* is inside the fetch window or is the timestamp of a record of the clean
\* subset: the missing earlier range is downloaded.
C24_EarlierRangeDownloaded ==
    (/\ HasLast
     /\ LastWindow # {}
     /\ \A r \in LastWindow : run.start_date < r.ts) =>
        \A t \in Time :
            (run.start_date <= t /\ \A r \in LastWindow : t < r.ts) =>
                \/ Last.called /\ Last.call[1] <= t /\ t < Last.call[2]
                \/ t \in TsSet(Last.clean)

====
